---- MODULE Spec2Model ----
(***************************************************************************)
(* Model of sdk/src/platform/Discovery.ts: the Discovery class, its four   *)
(* promise-memo cells, the two cache slots and the emitted events.         *)
(*                                                                         *)
(* Every invocation of a public async method is a frame of `calls`; every  *)
(* invocation of a private async method (_init, _fetchInitialData,         *)
(* _fetchExternalData, _refreshExternalData) is a task, named by the id of *)
(* the frame that started it.  Code between two awaits runs as one step.   *)
(* Transport and cache completions are events of the host and arrive in    *)
(* any order; the continuation of an await on a promise that is already    *)
(* settled is a microtask and runs before any further host event or any    *)
(* further call from outside (HostTurn).                                   *)
(***************************************************************************)
EXTENDS Integers, Sequences, FiniteSets, TLC

\* Numbers of invocations of public methods made from outside the class
\* after construction: with every operation called (Spec), with the
\* bootstrap operations alone (SpecBootstrap), with the fetch and the
\* refresh of the external document alone (SpecExternal).
MaxCalls == 2

MaxBootstrapCalls == 3

MaxExternalCalls == 3

\* Number of calls from outside in SpecRace, where the transport and the
\* cache never fail.
MaxRaceCalls == 4

\* Number of calls from outside in SpecExpiry.
MaxExpiryCalls == 3

\* Number of fetchExternalData calls from outside in SpecFetch.
MaxFetchCalls == 3

\* Endpoints fetchExternalData is called with, and the values of
\* discoveryApi.externalUri a response can carry.
Endpoints == {"e1", "e2"}

VARIABLES
    now,                     \* the last value Date.now() returned
    _clientId,               \* "" or a client identifier
    _refreshHandicapMs,      \* the refresh handicap, in ms
    _cache,                  \* the two slots, by cache id suffix
    _initialPromise,         \* id of the _init task held, 0 when null
    _initialFetchPromise,    \* id of the _fetchInitialData task held
    _externalFetchPromise,   \* id of the _fetchExternalData task held
    _externalRefreshPromise, \* id of the _refreshExternalData task held
    _initialized,
    calls,                   \* frames of the public async methods
    initTasks,               \* _init invocations
    initialFetches,          \* _fetchInitialData invocations
    externalFetches,         \* _fetchExternalData invocations
    refreshTasks,            \* _refreshExternalData invocations
    emitted                  \* the events emitted so far, in order

vars == <<now, _clientId, _refreshHandicapMs, _cache, _initialPromise,
          _initialFetchPromise, _externalFetchPromise,
          _externalRefreshPromise, _initialized, calls, initTasks,
          initialFetches, externalFetches, refreshTasks, emitted>>

\* The options the constructor stored; no method assigns them.
options == <<_clientId, _refreshHandicapMs>>

cells == <<_initialPromise, _initialFetchPromise, _externalFetchPromise,
           _externalRefreshPromise>>

tasks == <<initTasks, initialFetches, externalFetches, refreshTasks>>

(***************************************************************************)
(* Values.  Every value is a record with a `kind`, so that any two can be  *)
(* compared.                                                               *)
(***************************************************************************)
Null == [kind |-> "null"]

Void == [kind |-> "void"]

\* A failure; `src` is the id of the frame or task that raised it.
Failure(name, src) == [kind |-> "error", name |-> name, src |-> src]

\* The body of the response to the GET issued by _fetchInitialData task f;
\* body 0 is a document that was in the cache before construction.
InitialDocument(f) == [kind |-> "initial", body |-> f]

\* An optional field is <<>> when undefined and <<v>> when it has value v.
Undefined == <<>>

\* What the transport can answer to an external GET: the fields of the body
\* that the class reads, and the discovery-tag header.
ExternalResponses ==
    {[externalUri |-> "e1", expiresIn |-> 1, expireTime |-> Undefined,
      discoveryTag |-> <<"v2">>],
     [externalUri |-> "e2", expiresIn |-> 0, expireTime |-> <<7>>,
      discoveryTag |-> Undefined]}

\* The parsed body of response r to the GET issued by _fetchExternalData
\* task x; body 0 is a document that was in the cache before construction.
ExternalDocument(x, r) ==
    [kind |-> "external", body |-> x, externalUri |-> r.externalUri,
     expiresIn |-> r.expiresIn, expireTime |-> r.expireTime,
     tag |-> Undefined]

\* The values Date.now() can return, in ms; it never goes back.
Times == {0, 1000}

IsError(v) == v.kind = "error"

Settled(t) == t.pc \in {"fulfilled", "rejected"}

\* A frame of a public async method.  op: the method; by: 0 when called
\* from outside, else the id of the private task that called it; pc: where
\* it is suspended; on: the task whose promise it awaits; arg: the endpoint
\* argument; data: the value it is writing to the cache; res: its outcome.
Frame(op, by, pc, on, arg, data, res) ==
    [op |-> op, by |-> by, pc |-> pc, on |-> on, arg |-> arg, data |-> data,
     res |-> res]

Done(c, res) ==
    [calls EXCEPT ![c].pc = "done", ![c].data = Null, ![c].res = res]

\* An invocation of a private async method.  pc: where it is suspended;
\* call: the frame of the public method it called; endpoint: the URL of its
\* GET; data: the document it is writing (_fetchInitialData) or the response
\* it received (_fetchExternalData); value: what it settled with.
Task(pc) ==
    [pc |-> pc, call |-> 0, endpoint |-> "", data |-> Null, value |-> Null]

Fulfil(ts, t, v) == [ts EXCEPT ![t].pc = "fulfilled", ![t].value = v]

Reject(ts, t, e) == [ts EXCEPT ![t].pc = "rejected", ![t].value = e]

\* emit(event, data), by frame or task `by`.
Emit(event, data, by) ==
    Append(emitted, [event |-> event, data |-> data, by |-> by])

\* The calls made from outside after construction (frame 1 is the
\* constructor's init()).
Outside == {c \in DOMAIN calls : calls[c].by = 0 /\ c > 1}

\* The task whose promise frame c awaits.
Awaited(c) ==
    CASE calls[c].op = "init" -> initTasks[calls[c].on]
      [] calls[c].op = "fetchInitialData" -> initialFetches[calls[c].on]
      [] calls[c].op = "fetchExternalData" -> externalFetches[calls[c].on]
      [] calls[c].op = "refreshExternalData" -> refreshTasks[calls[c].on]

\* A continuation is queued as a microtask: a frame whose awaited promise is
\* settled, or a task whose nested call has returned.
Runnable ==
    \/ \E c \in DOMAIN calls : calls[c].pc = "await" /\ Settled(Awaited(c))
    \/ \E a \in DOMAIN initTasks :
          /\ initTasks[a].pc = "fetchInitialData"
          /\ calls[initTasks[a].call].pc = "done"
    \/ \E r \in DOMAIN refreshTasks :
          /\ refreshTasks[r].pc = "fetchExternalData"
          /\ calls[refreshTasks[r].call].pc = "done"

\* The microtask queue is empty: the host runs its next event, or code
\* outside the class makes its next call.
HostTurn == ~Runnable

CanCall(n) == HostTurn /\ Cardinality(Outside) < n

(***************************************************************************)
(* Bootstrap: init, _init, fetchInitialData, _fetchInitialData             *)
(***************************************************************************)

\* init() without the client-id check of lines 149-151.
init_Unchecked(by) ==
    LET k == Len(calls) + 1
        start == _initialPromise = 0
        on == IF start THEN k ELSE _initialPromise
    IN  /\ calls' = Append(calls, Frame("init", by, "await", on, "", Null,
                                        Null))
        /\ _initialPromise' = on
        /\ initTasks' = IF start
                        THEN (k :> Task("initialData")) @@ initTasks
                        ELSE initTasks

\* init() without the test of the cell at line 152: every call starts _init.
init_Restart(by) ==
    LET k == Len(calls) + 1
    IN  IF _clientId = ""
        THEN /\ calls' = Append(calls, Frame("init", by, "done", 0, "", Null,
                                             Failure("ConfigError", k)))
             /\ UNCHANGED <<_initialPromise, initTasks>>
        ELSE /\ calls' = Append(calls, Frame("init", by, "await", k, "",
                                             Null, Null))
             /\ _initialPromise' = k
             /\ initTasks' = (k :> Task("initialData")) @@ initTasks

\* init(), lines 148-156, up to its await; _init() runs up to its first
\* await, the cache read of initialData().
init(by) ==
    LET k == Len(calls) + 1
        start == _initialPromise = 0
        on == IF start THEN k ELSE _initialPromise
    IN  IF _clientId = ""
        THEN /\ calls' = Append(calls, Frame("init", by, "done", 0, "", Null,
                                             Failure("ConfigError", k)))
             /\ UNCHANGED <<_initialPromise, initTasks>>
        ELSE /\ calls' = Append(calls, Frame("init", by, "await", on, "",
                                             Null, Null))
             /\ _initialPromise' = on
             /\ initTasks' = IF start
                             THEN (k :> Task("initialData")) @@ initTasks
                             ELSE initTasks

\* init(), lines 156-161: the awaited _init promise has settled.
initSettled(c) ==
    /\ calls[c].op = "init" /\ calls[c].pc = "await"
    /\ Settled(Awaited(c))
    /\ _initialPromise' = 0
    /\ calls' = Done(c, IF Awaited(c).pc = "fulfilled" THEN Void
                        ELSE Awaited(c).value)

\* fetchInitialData() without the test of the cell at line 177: every call
\* starts _fetchInitialData.
fetchInitialData_Restart(by) ==
    LET k == Len(calls) + 1
    IN  /\ calls' = Append(calls, Frame("fetchInitialData", by, "await", k,
                                        "", Null, Null))
        /\ _initialFetchPromise' = k
        /\ initialFetches' = (k :> Task("fetchGet")) @@ initialFetches

\* fetchInitialData(), lines 176-180, up to its await; _fetchInitialData()
\* runs up to its first await, which issues the transport GET (line 186).
fetchInitialData(by) ==
    LET k == Len(calls) + 1
        start == _initialFetchPromise = 0
        on == IF start THEN k ELSE _initialFetchPromise
    IN  /\ calls' = Append(calls, Frame("fetchInitialData", by, "await", on,
                                        "", Null, Null))
        /\ _initialFetchPromise' = on
        /\ initialFetches' = IF start
                             THEN (k :> Task("fetchGet")) @@ initialFetches
                             ELSE initialFetches

\* fetchInitialData(), lines 180-182: the awaited promise has settled.  A
\* rejection leaves the function at line 180, before the cell is cleared.
fetchInitialDataSettled(c) ==
    /\ calls[c].op = "fetchInitialData" /\ calls[c].pc = "await"
    /\ Settled(Awaited(c))
    /\ IF Awaited(c).pc = "fulfilled"
       THEN _initialFetchPromise' = 0
       ELSE UNCHANGED _initialFetchPromise
    /\ calls' = Done(c, Awaited(c).value)

\* _init() without the short cut of lines 166-170: the cached document is
\* ignored and the initial document is always fetched.
initialDataRead_AlwaysFetch(a, ok) ==
    /\ HostTurn
    /\ initTasks[a].pc = "initialData"
    /\ IF ~ok
       THEN /\ initTasks' = Reject(initTasks, a, Failure("CacheError", a))
            /\ UNCHANGED <<calls, _initialFetchPromise, initialFetches,
                           _initialized, emitted>>
       ELSE /\ fetchInitialData(a)
            /\ initTasks' = [initTasks EXCEPT ![a].pc = "fetchInitialData",
                                              ![a].call = Len(calls) + 1]
            /\ UNCHANGED <<_initialized, emitted>>

\* _init(), lines 165-171: the cache read of initialData() completes.
initialDataRead(a, ok) ==
    /\ HostTurn
    /\ initTasks[a].pc = "initialData"
    /\ IF ~ok
       THEN /\ initTasks' = Reject(initTasks, a, Failure("CacheError", a))
            /\ UNCHANGED <<calls, _initialFetchPromise, initialFetches,
                           _initialized, emitted>>
       ELSE IF _cache.initial # Null
       THEN /\ _initialized' = TRUE
            /\ emitted' = Emit("initialized", _cache.initial, a)
            /\ initTasks' = Fulfil(initTasks, a, Void)
            /\ UNCHANGED <<calls, _initialFetchPromise, initialFetches>>
       ELSE /\ fetchInitialData(a)
            /\ initTasks' = [initTasks EXCEPT ![a].pc = "fetchInitialData",
                                              ![a].call = Len(calls) + 1]
            /\ UNCHANGED <<_initialized, emitted>>

\* _init() resetting the readiness flag when its fetch fails.
initFetched_Reset(a) ==
    /\ initTasks[a].pc = "fetchInitialData"
    /\ calls[initTasks[a].call].pc = "done"
    /\ LET res == calls[initTasks[a].call].res
       IN  IF IsError(res)
           THEN /\ initTasks' = Reject(initTasks, a, res)
                /\ _initialized' = FALSE
                /\ UNCHANGED emitted
           ELSE /\ _initialized' = TRUE
                /\ emitted' = Emit("initialized", res, a)
                /\ initTasks' = Fulfil(initTasks, a, Void)

\* _init(), lines 171-173: its call of fetchInitialData() has returned.
initFetched(a) ==
    /\ initTasks[a].pc = "fetchInitialData"
    /\ calls[initTasks[a].call].pc = "done"
    /\ LET res == calls[initTasks[a].call].res
       IN  IF IsError(res)
           THEN /\ initTasks' = Reject(initTasks, a, res)
                /\ UNCHANGED <<_initialized, emitted>>
           ELSE /\ _initialized' = TRUE
                /\ emitted' = Emit("initialized", res, a)
                /\ initTasks' = Fulfil(initTasks, a, Void)

\* _fetchInitialData(), lines 186-188: the transport answers the GET and the
\* body is parsed; _setInitialData issues the cache write.
fetchGetInitial(f, ok) ==
    /\ HostTurn
    /\ initialFetches[f].pc = "fetchGet"
    /\ initialFetches' =
          IF ok
          THEN [initialFetches EXCEPT ![f].pc = "setInitialData",
                                      ![f].data = InitialDocument(f)]
          ELSE Reject(initialFetches, f, Failure("TransportError", f))

\* _fetchInitialData() without line 188: the document is returned and never
\* written to the cache.
setInitialData_Unwritten(f, ok) ==
    /\ HostTurn
    /\ initialFetches[f].pc = "setInitialData"
    /\ UNCHANGED _cache
    /\ initialFetches' = Fulfil(initialFetches, f, initialFetches[f].data)

\* _fetchInitialData(), lines 188-189, and _setInitialData, line 249: the
\* cache write completes.
setInitialData(f, ok) ==
    /\ HostTurn
    /\ initialFetches[f].pc = "setInitialData"
    /\ IF ok
       THEN /\ _cache' = [_cache EXCEPT !.initial = initialFetches[f].data]
            /\ initialFetches' = Fulfil(initialFetches, f,
                                        initialFetches[f].data)
       ELSE /\ initialFetches' = Reject(initialFetches, f,
                                        Failure("CacheError", f))
            /\ UNCHANGED _cache

(***************************************************************************)
(* External document: fetchExternalData, _fetchExternalData,               *)
(* _setExternalData, refreshExternalData, _refreshExternalData             *)
(***************************************************************************)

\* _setExternalData() without the expireTime override of line 259 when
\* expiresIn is falsy: the expireTime of the payload is stored.
setExternalDataValue_Trusting(newData, t) ==
    [newData EXCEPT !.expireTime = IF newData.expiresIn # 0
                                   THEN <<t + newData.expiresIn * 1000>>
                                   ELSE newData.expireTime]

\* _setExternalData(), lines 253-260: the value handed to cache.setItem when
\* Date.now() returns t.
setExternalDataValue(newData, t) ==
    [newData EXCEPT !.expireTime = IF newData.expiresIn # 0
                                   THEN <<t + newData.expiresIn * 1000>>
                                   ELSE Undefined]

\* fetchExternalData() without the test of the cell at line 203: every call
\* starts _fetchExternalData.
fetchExternalData_Restart(by, externalEndoint) ==
    LET k == Len(calls) + 1
    IN  /\ calls' = Append(calls, Frame("fetchExternalData", by, "await", k,
                                        externalEndoint, Null, Null))
        /\ _externalFetchPromise' = k
        /\ externalFetches' =
              (k :> [Task("fetchGet") EXCEPT !.endpoint = externalEndoint])
              @@ externalFetches

\* fetchExternalData() with the cell tested per endpoint: a call for an
\* endpoint other than the one being fetched starts _fetchExternalData.
fetchExternalData_PerEndpoint(by, externalEndoint) ==
    LET k == Len(calls) + 1
        start == \/ _externalFetchPromise = 0
                 \/ externalFetches[_externalFetchPromise].endpoint
                       # externalEndoint
        on == IF start THEN k ELSE _externalFetchPromise
    IN  /\ calls' = Append(calls, Frame("fetchExternalData", by, "await", on,
                                        externalEndoint, Null, Null))
        /\ _externalFetchPromise' = on
        /\ externalFetches' =
              IF start
              THEN (k :> [Task("fetchGet") EXCEPT !.endpoint = externalEndoint])
                   @@ externalFetches
              ELSE externalFetches

\* fetchExternalData(), lines 202-207, up to its await; _fetchExternalData()
\* runs up to its first await, which issues the transport GET (line 193).
fetchExternalData(by, externalEndoint) ==
    LET k == Len(calls) + 1
        start == _externalFetchPromise = 0
        on == IF start THEN k ELSE _externalFetchPromise
    IN  /\ calls' = Append(calls, Frame("fetchExternalData", by, "await", on,
                                        externalEndoint, Null, Null))
        /\ _externalFetchPromise' = on
        /\ externalFetches' =
              IF start
              THEN (k :> [Task("fetchGet") EXCEPT !.endpoint = externalEndoint])
                   @@ externalFetches
              ELSE externalFetches

\* fetchExternalData() without the catch block of lines 212-215: a rejection
\* leaves the cell as it is.
fetchExternalDataSettled_Sticky(c, t) ==
    /\ calls[c].op = "fetchExternalData" /\ calls[c].pc = "await"
    /\ Settled(Awaited(c))
    /\ IF Awaited(c).pc = "fulfilled"
       THEN /\ now' = IF Awaited(c).value.expiresIn # 0 THEN t ELSE now
            /\ calls' = [calls EXCEPT
                  ![c].pc = "setExternalData",
                  ![c].data = setExternalDataValue(Awaited(c).value, t)]
            /\ UNCHANGED _externalFetchPromise
       ELSE /\ calls' = Done(c, Awaited(c).value)
            /\ UNCHANGED <<_externalFetchPromise, now>>

\* fetchExternalData(), lines 207-208 and 212-214: the awaited promise has
\* settled.  Fulfilled: _setExternalData reads the clock (when expiresIn is
\* truthy, line 254) and issues the cache write.  Rejected: the catch block
\* clears the cell and rethrows.
fetchExternalDataSettled(c, t) ==
    /\ calls[c].op = "fetchExternalData" /\ calls[c].pc = "await"
    /\ Settled(Awaited(c))
    /\ IF Awaited(c).pc = "fulfilled"
       THEN /\ now' = IF Awaited(c).value.expiresIn # 0 THEN t ELSE now
            /\ calls' = [calls EXCEPT
                  ![c].pc = "setExternalData",
                  ![c].data = setExternalDataValue(Awaited(c).value, t)]
            /\ UNCHANGED _externalFetchPromise
       ELSE /\ _externalFetchPromise' = 0
            /\ calls' = Done(c, Awaited(c).value)
            /\ UNCHANGED now

\* fetchExternalData() emitting before the write is awaited: the event is
\* emitted whether or not the cache write succeeds.
setExternalData_EmitFirst(c, ok) ==
    /\ HostTurn
    /\ calls[c].pc = "setExternalData"
    /\ _externalFetchPromise' = 0
    /\ emitted' = Emit("external-data-updated", Awaited(c).value, c)
    /\ IF ok
       THEN /\ _cache' = [_cache EXCEPT !.external = calls[c].data]
            /\ calls' = Done(c, Awaited(c).value)
       ELSE /\ calls' = Done(c, Failure("CacheError", c))
            /\ UNCHANGED _cache

\* fetchExternalData(), lines 208-214: the cache write of _setExternalData
\* completes.
setExternalData(c, ok) ==
    /\ HostTurn
    /\ calls[c].pc = "setExternalData"
    /\ _externalFetchPromise' = 0
    /\ IF ok
       THEN /\ _cache' = [_cache EXCEPT !.external = calls[c].data]
            /\ emitted' = Emit("external-data-updated", Awaited(c).value, c)
            /\ calls' = Done(c, Awaited(c).value)
       ELSE /\ calls' = Done(c, Failure("CacheError", c))
            /\ UNCHANGED <<_cache, emitted>>

\* _fetchExternalData() without lines 195-198: the discovery-tag header is
\* not read.
fetchGetExternal_Untagged(x, ok, r) ==
    /\ HostTurn
    /\ externalFetches[x].pc = "fetchGet"
    /\ externalFetches' =
          IF ok
          THEN Fulfil([externalFetches EXCEPT ![x].data = r], x,
                      ExternalDocument(x, r))
          ELSE Reject(externalFetches, x, Failure("TransportError", x))

\* _fetchExternalData(), lines 193-199: the transport answers the GET, the
\* body is parsed and the discovery-tag header is read.  The task keeps the
\* response it received in `data`.
fetchGetExternal(x, ok, r) ==
    /\ HostTurn
    /\ externalFetches[x].pc = "fetchGet"
    /\ externalFetches' =
          IF ok
          THEN Fulfil([externalFetches EXCEPT ![x].data = r], x,
                      IF r.discoveryTag # Undefined
                      THEN [ExternalDocument(x, r) EXCEPT
                               !.tag = r.discoveryTag]
                      ELSE ExternalDocument(x, r))
          ELSE Reject(externalFetches, x, Failure("TransportError", x))

\* refreshExternalData() without the test of the cell at line 226: every
\* call starts _refreshExternalData.
refreshExternalData_Restart(by) ==
    LET k == Len(calls) + 1
    IN  /\ calls' = Append(calls, Frame("refreshExternalData", by, "await",
                                        k, "", Null, Null))
        /\ _externalRefreshPromise' = k
        /\ refreshTasks' = (k :> Task("delay")) @@ refreshTasks

\* refreshExternalData(), lines 225-230, up to its await;
\* _refreshExternalData() runs up to its first await, the delay.
refreshExternalData(by) ==
    LET k == Len(calls) + 1
        start == _externalRefreshPromise = 0
        on == IF start THEN k ELSE _externalRefreshPromise
    IN  /\ calls' = Append(calls, Frame("refreshExternalData", by, "await",
                                        on, "", Null, Null))
        /\ _externalRefreshPromise' = on
        /\ refreshTasks' = IF start
                           THEN (k :> Task("delay")) @@ refreshTasks
                           ELSE refreshTasks

\* refreshExternalData() without the catch block of lines 232-235: a
\* rejection leaves the cell as it is.
refreshExternalDataSettled_Sticky(c) ==
    /\ calls[c].op = "refreshExternalData" /\ calls[c].pc = "await"
    /\ Settled(Awaited(c))
    /\ IF Awaited(c).pc = "fulfilled"
       THEN _externalRefreshPromise' = 0
       ELSE UNCHANGED _externalRefreshPromise
    /\ calls' = Done(c, IF Awaited(c).pc = "fulfilled" THEN Void
                        ELSE Awaited(c).value)

\* refreshExternalData(), lines 230-235: the awaited promise has settled.
refreshExternalDataSettled(c) ==
    /\ calls[c].op = "refreshExternalData" /\ calls[c].pc = "await"
    /\ Settled(Awaited(c))
    /\ _externalRefreshPromise' = 0
    /\ calls' = Done(c, IF Awaited(c).pc = "fulfilled" THEN Void
                        ELSE Awaited(c).value)

\* _refreshExternalData(), lines 219-220: the delay elapses and the cache
\* read of externalData() is issued.
delay(r) ==
    /\ HostTurn
    /\ refreshTasks[r].pc = "delay"
    /\ refreshTasks' = [refreshTasks EXCEPT ![r].pc = "externalData"]

\* _refreshExternalData() chaining off the wrong field of the cached
\* document: the endpoint is not the cached discoveryApi.externalUri.
externalDataRead_WrongUri(r, ok) ==
    /\ HostTurn
    /\ refreshTasks[r].pc = "externalData"
    /\ IF ~ok
       THEN /\ refreshTasks' = Reject(refreshTasks, r,
                                      Failure("CacheError", r))
            /\ UNCHANGED <<calls, _externalFetchPromise, externalFetches>>
       ELSE IF _cache.external = Null
       THEN /\ refreshTasks' = Reject(refreshTasks, r,
                                      Failure("TypeError", r))
            /\ UNCHANGED <<calls, _externalFetchPromise, externalFetches>>
       ELSE /\ \E e \in Endpoints \ {_cache.external.externalUri} :
                  fetchExternalData(r, e)
            /\ refreshTasks' = [refreshTasks EXCEPT
                                   ![r].pc = "fetchExternalData",
                                   ![r].call = Len(calls) + 1]

\* _refreshExternalData(), lines 220-222: the cache read completes.  With no
\* document, line 221 reads a property of null and throws.
externalDataRead(r, ok) ==
    /\ HostTurn
    /\ refreshTasks[r].pc = "externalData"
    /\ IF ~ok
       THEN /\ refreshTasks' = Reject(refreshTasks, r,
                                      Failure("CacheError", r))
            /\ UNCHANGED <<calls, _externalFetchPromise, externalFetches>>
       ELSE IF _cache.external = Null
       THEN /\ refreshTasks' = Reject(refreshTasks, r,
                                      Failure("TypeError", r))
            /\ UNCHANGED <<calls, _externalFetchPromise, externalFetches>>
       ELSE /\ fetchExternalData(r, _cache.external.externalUri)
            /\ refreshTasks' = [refreshTasks EXCEPT
                                   ![r].pc = "fetchExternalData",
                                   ![r].call = Len(calls) + 1]

\* _refreshExternalData(), lines 222-223: its call of fetchExternalData()
\* has returned.
refreshFetched(r) ==
    /\ refreshTasks[r].pc = "fetchExternalData"
    /\ calls[refreshTasks[r].call].pc = "done"
    /\ LET res == calls[refreshTasks[r].call].res
       IN  refreshTasks' = IF IsError(res)
                           THEN Reject(refreshTasks, r, res)
                           ELSE Fulfil(refreshTasks, r, Void)

(***************************************************************************)
(* Cache removal: removeExternalData, removeInitialData                    *)
(***************************************************************************)

\* removeExternalData() / removeInitialData(), lines 263-269, up to the
\* await of cache.removeItem.
removeData(op) ==
    calls' = Append(calls, Frame(op, 0, "removeItem", 0, "", Null, Null))

\* cache.removeItem completes.
removeItem(c, ok) ==
    /\ HostTurn
    /\ calls[c].pc = "removeItem"
    /\ IF ok
       THEN /\ _cache' = IF calls[c].op = "removeInitialData"
                         THEN [_cache EXCEPT !.initial = Null]
                         ELSE [_cache EXCEPT !.external = Null]
            /\ calls' = Done(c, Void)
       ELSE /\ calls' = Done(c, Failure("CacheError", c))
            /\ UNCHANGED _cache

(***************************************************************************)
(* Expiry query: externalDataExpired                                       *)
(***************************************************************************)

\* The value an async method returns when it returns a boolean.
Boolean(b) == [kind |-> "boolean", value |-> b]

\* externalDataExpired(), lines 274-275, up to the await of the cache read
\* of externalData().
externalDataExpired ==
    calls' = Append(calls, Frame("externalDataExpired", 0, "externalData", 0,
                                 "", Null, Null))

\* externalDataExpired(), line 279, when Date.now() returns t: a comparison
\* with the undefined expireTime (NaN) is false.
expiredValue(data, t) ==
    /\ data.expireTime # Undefined
    /\ data.expireTime[1] - _refreshHandicapMs > t

\* externalDataExpired(), lines 275-279: the cache read completes; the
\* clock is read only when there is a document.
externalDataExpiredRead(c, ok, t) ==
    /\ HostTurn
    /\ calls[c].op = "externalDataExpired" /\ calls[c].pc = "externalData"
    /\ IF ~ok
       THEN /\ calls' = Done(c, Failure("CacheError", c))
            /\ UNCHANGED now
       ELSE IF _cache.external = Null
       THEN /\ calls' = Done(c, Boolean(TRUE))
            /\ UNCHANGED now
       ELSE /\ calls' = Done(c, Boolean(expiredValue(_cache.external, t)))
            /\ now' = t

(***************************************************************************)
(* The state after construction, lines 125-146: the options are stored and *)
(* init() has run up to its first await (or has thrown).  The cache is the *)
(* caller's and may already hold documents.                                *)
(***************************************************************************)
ClientIds == {"", "client"}

\* The values of the refreshHandicapMs option, in ms.
Handicaps == {0, 1000}

CachedExternal ==
    [kind |-> "external", body |-> 0, externalUri |-> "e1", expiresIn |-> 1,
     expireTime |-> <<1000>>, tag |-> Undefined]

Init ==
    /\ now = 0
    /\ _clientId \in ClientIds
    /\ _refreshHandicapMs \in Handicaps
    /\ _cache \in [initial : {Null, InitialDocument(0)},
                   external : {Null, CachedExternal}]
    /\ _initialPromise = IF _clientId = "" THEN 0 ELSE 1
    /\ _initialFetchPromise = 0
    /\ _externalFetchPromise = 0
    /\ _externalRefreshPromise = 0
    /\ _initialized = FALSE
    /\ calls = IF _clientId = ""
               THEN <<Frame("init", 0, "done", 0, "", Null,
                            Failure("ConfigError", 1))>>
               ELSE <<Frame("init", 0, "await", 1, "", Null, Null)>>
    /\ initTasks = IF _clientId = "" THEN <<>>
                   ELSE 1 :> Task("initialData")
    /\ initialFetches = <<>>
    /\ externalFetches = <<>>
    /\ refreshTasks = <<>>
    /\ emitted = <<>>

(***************************************************************************)
(* Calls from outside the class                                            *)
(***************************************************************************)
CallInit(n) ==
    /\ CanCall(n)
    /\ init(0)
    /\ UNCHANGED <<now, options, _cache, _initialFetchPromise,
                   _externalFetchPromise, _externalRefreshPromise,
                   _initialized, initialFetches, externalFetches,
                   refreshTasks, emitted>>

CallFetchInitialData(n) ==
    /\ CanCall(n)
    /\ fetchInitialData(0)
    /\ UNCHANGED <<now, options, _cache, _initialPromise,
                   _externalFetchPromise, _externalRefreshPromise,
                   _initialized, initTasks, externalFetches, refreshTasks,
                   emitted>>

CallFetchExternalData(n) ==
    /\ CanCall(n)
    /\ \E e \in Endpoints : fetchExternalData(0, e)
    /\ UNCHANGED <<now, options, _cache, _initialPromise,
                   _initialFetchPromise, _externalRefreshPromise,
                   _initialized, initTasks, initialFetches, refreshTasks,
                   emitted>>

CallRefreshExternalData(n) ==
    /\ CanCall(n)
    /\ refreshExternalData(0)
    /\ UNCHANGED <<now, options, _cache, _initialPromise,
                   _initialFetchPromise, _externalFetchPromise, _initialized,
                   initTasks, initialFetches, externalFetches, emitted>>

CallRemoveInitialData(n) ==
    /\ CanCall(n)
    /\ removeData("removeInitialData")
    /\ UNCHANGED <<now, options, _cache, cells, _initialized, tasks,
                   emitted>>

CallRemoveExternalData(n) ==
    /\ CanCall(n)
    /\ removeData("removeExternalData")
    /\ UNCHANGED <<now, options, _cache, cells, _initialized, tasks,
                   emitted>>

CallExternalDataExpired(n) ==
    /\ CanCall(n)
    /\ externalDataExpired
    /\ UNCHANGED <<now, options, _cache, cells, _initialized, tasks,
                   emitted>>

(***************************************************************************)
(* Continuations of awaits on the class's own promises                     *)
(***************************************************************************)
InitSettled ==
    /\ \E c \in DOMAIN calls : initSettled(c)
    /\ UNCHANGED <<now, options, _cache, _initialFetchPromise,
                   _externalFetchPromise, _externalRefreshPromise,
                   _initialized, tasks, emitted>>

FetchInitialDataSettled ==
    /\ \E c \in DOMAIN calls : fetchInitialDataSettled(c)
    /\ UNCHANGED <<now, options, _cache, _initialPromise,
                   _externalFetchPromise, _externalRefreshPromise,
                   _initialized, tasks, emitted>>

InitFetched ==
    /\ \E a \in DOMAIN initTasks : initFetched(a)
    /\ UNCHANGED <<now, options, _cache, cells, calls, initialFetches,
                   externalFetches, refreshTasks>>

FetchExternalDataSettled ==
    /\ \E c \in DOMAIN calls :
          \E t \in {u \in Times : u >= now} : fetchExternalDataSettled(c, t)
    /\ UNCHANGED <<options, _cache, _initialPromise, _initialFetchPromise,
                   _externalRefreshPromise, _initialized, tasks, emitted>>

RefreshExternalDataSettled ==
    /\ \E c \in DOMAIN calls : refreshExternalDataSettled(c)
    /\ UNCHANGED <<now, options, _cache, _initialPromise,
                   _initialFetchPromise, _externalFetchPromise, _initialized,
                   tasks, emitted>>

RefreshFetched ==
    /\ \E r \in DOMAIN refreshTasks : refreshFetched(r)
    /\ UNCHANGED <<now, options, _cache, cells, _initialized, calls,
                   initTasks, initialFetches, externalFetches, emitted>>

(***************************************************************************)
(* Completions of transport requests, cache operations and the delay       *)
(***************************************************************************)
InitialDataRead ==
    /\ \E a \in DOMAIN initTasks : \E ok \in BOOLEAN : initialDataRead(a, ok)
    /\ UNCHANGED <<now, options, _cache, _initialPromise,
                   _externalFetchPromise, _externalRefreshPromise,
                   externalFetches, refreshTasks>>

FetchGetInitial ==
    /\ \E f \in DOMAIN initialFetches :
          \E ok \in BOOLEAN : fetchGetInitial(f, ok)
    /\ UNCHANGED <<now, options, _cache, cells, _initialized, calls,
                   initTasks, externalFetches, refreshTasks, emitted>>

SetInitialData ==
    /\ \E f \in DOMAIN initialFetches :
          \E ok \in BOOLEAN : setInitialData(f, ok)
    /\ UNCHANGED <<now, options, cells, _initialized, calls, initTasks,
                   externalFetches, refreshTasks, emitted>>

FetchGetExternal ==
    /\ \E x \in DOMAIN externalFetches :
          \E ok \in BOOLEAN :
             \E r \in ExternalResponses : fetchGetExternal(x, ok, r)
    /\ UNCHANGED <<now, options, _cache, cells, _initialized, calls,
                   initTasks, initialFetches, refreshTasks, emitted>>

SetExternalData ==
    /\ \E c \in DOMAIN calls : \E ok \in BOOLEAN : setExternalData(c, ok)
    /\ UNCHANGED <<now, options, _initialPromise, _initialFetchPromise,
                   _externalRefreshPromise, _initialized, tasks>>

Delay ==
    /\ \E r \in DOMAIN refreshTasks : delay(r)
    /\ UNCHANGED <<now, options, _cache, cells, _initialized, calls,
                   initTasks, initialFetches, externalFetches, emitted>>

ExternalDataRead ==
    /\ \E r \in DOMAIN refreshTasks :
          \E ok \in BOOLEAN : externalDataRead(r, ok)
    /\ UNCHANGED <<now, options, _cache, _initialPromise,
                   _initialFetchPromise, _externalRefreshPromise,
                   _initialized, initTasks, initialFetches, emitted>>

RemoveItem ==
    /\ \E c \in DOMAIN calls : \E ok \in BOOLEAN : removeItem(c, ok)
    /\ UNCHANGED <<now, options, cells, _initialized, tasks, emitted>>

ExternalDataExpiredRead ==
    /\ \E c \in DOMAIN calls :
          \E ok \in BOOLEAN :
             \E t \in {u \in Times : u >= now} :
                externalDataExpiredRead(c, ok, t)
    /\ UNCHANGED <<options, _cache, cells, _initialized, tasks, emitted>>

Next ==
    \/ CallInit(MaxCalls)
    \/ CallFetchInitialData(MaxCalls)
    \/ CallFetchExternalData(MaxCalls)
    \/ CallRefreshExternalData(MaxCalls)
    \/ CallRemoveInitialData(MaxCalls)
    \/ CallRemoveExternalData(MaxCalls)
    \/ CallExternalDataExpired(MaxCalls)
    \/ InitSettled
    \/ FetchInitialDataSettled
    \/ InitFetched
    \/ FetchExternalDataSettled
    \/ RefreshExternalDataSettled
    \/ RefreshFetched
    \/ InitialDataRead
    \/ FetchGetInitial
    \/ SetInitialData
    \/ FetchGetExternal
    \/ SetExternalData
    \/ Delay
    \/ ExternalDataRead
    \/ RemoveItem
    \/ ExternalDataExpiredRead

Spec == Init /\ [][Next]_vars

\* The bootstrap operations alone.
NextBootstrap ==
    \/ CallInit(MaxBootstrapCalls)
    \/ CallFetchInitialData(MaxBootstrapCalls)
    \/ CallRemoveInitialData(MaxBootstrapCalls)
    \/ InitSettled
    \/ FetchInitialDataSettled
    \/ InitFetched
    \/ InitialDataRead
    \/ FetchGetInitial
    \/ SetInitialData
    \/ RemoveItem

SpecBootstrap == Init /\ [][NextBootstrap]_vars

\* The fetch and refresh operations on the external document alone.
ExternalCalls(n) ==
    \/ CallFetchExternalData(n)
    \/ CallRefreshExternalData(n)

ExternalSteps ==
    \/ FetchExternalDataSettled
    \/ RefreshExternalDataSettled
    \/ RefreshFetched
    \/ FetchGetExternal
    \/ SetExternalData
    \/ Delay
    \/ ExternalDataRead

NextExternal == ExternalCalls(MaxExternalCalls) \/ ExternalSteps

\* The bootstrap that construction started stays suspended at its cache
\* read while the external operations run.
InitExpiry == Init /\ _clientId # "" /\ _cache.initial = Null

\* The same, for the operations that never read the handicap.
InitExternal == InitExpiry /\ _refreshHandicapMs = 0

SpecExternal == InitExternal /\ [][NextExternal]_vars

\* The same operations in the runs where every transport request and every
\* cache operation succeeds and the clock stands still.
NoFailure ==
    /\ \A x \in DOMAIN externalFetches : externalFetches[x].pc # "rejected"
    /\ \A r \in DOMAIN refreshTasks : refreshTasks[r].pc # "rejected"
    /\ \A c \in DOMAIN calls : ~IsError(calls[c].res)

Calm == NoFailure' /\ now' = now

NextRace ==
    \/ CallFetchExternalData(MaxRaceCalls) /\ Calm
    \/ CallRefreshExternalData(MaxRaceCalls) /\ Calm
    \/ FetchExternalDataSettled /\ Calm
    \/ RefreshExternalDataSettled /\ Calm
    \/ RefreshFetched /\ Calm
    \/ FetchGetExternal /\ Calm
    \/ SetExternalData /\ Calm
    \/ Delay /\ Calm
    \/ ExternalDataRead /\ Calm

SpecRace == InitExternal /\ [][NextRace]_vars

\* The expiry query with the operations that change what it reads: the
\* fetch and the removal of the external document.
NextExpiry ==
    \/ CallExternalDataExpired(MaxExpiryCalls)
    \/ CallFetchExternalData(MaxExpiryCalls)
    \/ CallRemoveExternalData(MaxExpiryCalls)
    \/ FetchExternalDataSettled
    \/ FetchGetExternal
    \/ SetExternalData
    \/ RemoveItem
    \/ ExternalDataExpiredRead

SpecExpiry == InitExpiry /\ [][NextExpiry]_vars

\* fetchExternalData alone.
NextFetch ==
    \/ CallFetchExternalData(MaxFetchCalls)
    \/ FetchExternalDataSettled
    \/ FetchGetExternal
    \/ SetExternalData

SpecFetch == InitExternal /\ [][NextFetch]_vars

(***************************************************************************)
(* Properties                                                              *)
(***************************************************************************)
Frames(op) == {c \in DOMAIN calls : calls[c].op = op}

Events(event) == {i \in DOMAIN emitted : emitted[i].event = event}

\* The transport GETs that have been issued and not answered.
InitialGets ==
    {f \in DOMAIN initialFetches : initialFetches[f].pc = "fetchGet"}

ExternalGets ==
    {x \in DOMAIN externalFetches : externalFetches[x].pc = "fetchGet"}

\* The frames of op that awaited task t and have returned.
Returned(op, t) ==
    {c \in Frames(op) : calls[c].on = t /\ calls[c].pc = "done"}

\* C1: at most one transport GET for the external document is outstanding
\* at any time.
C1_OneExternalGetOutstanding == Cardinality(ExternalGets) <= 1

C3_InitialFetchCellCleared ==
    \A f \in DOMAIN initialFetches :
       (Settled(initialFetches[f]) /\ HostTurn) => _initialFetchPromise # f

\* C4: a bootstrap attempt made after one that failed on the transport
\* request issues a transport request of its own: it does not await the
\* fetch the failed attempt awaited.
C4_FailedBootstrapRetried ==
    \A a1, a2 \in DOMAIN initTasks :
       ( /\ a1 < a2
         /\ initTasks[a1].pc = "rejected"
         /\ initTasks[a1].value.name = "TransportError"
         /\ initTasks[a2].call # 0 )
       => calls[initTasks[a2].call].on # calls[initTasks[a1].call].on

C6_ReadinessMonotone ==
    /\ [](_initialized <=>
             \E a \in DOMAIN initTasks : initTasks[a].pc = "fulfilled")
    /\ [][_initialized => _initialized']_vars

\* Ready, and a later bootstrap attempt has failed.
C6_Witness ==
    /\ _initialized
    /\ \E a1, a2 \in DOMAIN initTasks :
          /\ a1 < a2
          /\ initTasks[a1].pc = "fulfilled"
          /\ initTasks[a2].pc = "rejected"

\* C7: with an empty client identifier every init() call has failed with
\* the configuration error without starting _init (so without a cache read
\* or a transport request of the bootstrap); no cell of the bootstrap is
\* set, no initialized event is emitted and initialized is false.
C7_ClientIdRequired ==
    _clientId = "" =>
       /\ \A c \in Frames("init") :
             /\ calls[c].pc = "done"
             /\ calls[c].on = 0
             /\ IsError(calls[c].res)
             /\ calls[c].res.name = "ConfigError"
       /\ DOMAIN initTasks = {}
       /\ _initialPromise = 0
       /\ \A f \in DOMAIN initialFetches : calls[f].by = 0
       /\ Events("initialized") = {}
       /\ ~_initialized

\* The constructor's init() and a later one, with no client identifier.
C7_Witness == _clientId = "" /\ Cardinality(Frames("init")) >= 2

\* C8: when the cache read of a bootstrap attempt returns a document, the
\* attempt issues no transport request, sets initialized, emits initialized
\* with that document and is fulfilled.
C8_BootstrapShortCircuit ==
    [][\A a \in DOMAIN initTasks :
          ( /\ initTasks[a].pc = "initialData"
            /\ initTasks'[a].pc \notin {"initialData", "rejected"}
            /\ _cache.initial # Null )
          => /\ initTasks'[a].pc = "fulfilled"
             /\ initialFetches' = initialFetches
             /\ _initialized'
             /\ emitted' = Append(emitted,
                                  [event |-> "initialized",
                                   data |-> _cache.initial, by |-> a])]_vars

\* An attempt that was fulfilled from the cache, without a fetch.
C8_Witness ==
    \E a \in DOMAIN initTasks :
       /\ initTasks[a].pc = "fulfilled"
       /\ initTasks[a].call = 0
       /\ _initialized
       /\ \E i \in Events("initialized") : emitted[i].by = a
       /\ initialFetches = <<>>

\* C9: at most one external-data-updated event is emitted for the document
\* of one external transport request.
C9_OneEventPerExternalFetch ==
    \A x \in DOMAIN externalFetches :
       Cardinality({i \in Events("external-data-updated") :
                       emitted[i].data.body = x}) <= 1

\* C10: when the transport request of external fetch x fails, every caller
\* awaiting x gets that failure in a step that leaves the cache and the
\* events alone and clears the cell; once they have returned the cell does
\* not hold x; no event carries, and the cache does not hold, a document of x.
C10_ExternalFetchFailure ==
    /\ [](\A x \in DOMAIN externalFetches :
             externalFetches[x].pc = "rejected" =>
                /\ HostTurn => _externalFetchPromise # x
                /\ \A c \in Returned("fetchExternalData", x) :
                      calls[c].res = externalFetches[x].value
                /\ \A i \in Events("external-data-updated") :
                      emitted[i].data.body # x
                /\ _cache.external # Null => _cache.external.body # x)
    /\ [][\A c \in Frames("fetchExternalData") :
             ( /\ calls[c].pc = "await"
               /\ externalFetches[calls[c].on].pc = "rejected"
               /\ calls'[c].pc # "await" )
             => /\ calls'[c].pc = "done"
                /\ calls'[c].res = externalFetches[calls[c].on].value
                /\ _externalFetchPromise' = 0
                /\ _cache' = _cache
                /\ emitted' = emitted]_vars

\* A failed external fetch that two callers awaited, and a later call that
\* started a fetch of its own.
C10_Witness ==
    \E x, y \in DOMAIN externalFetches :
       /\ x < y
       /\ externalFetches[x].pc = "rejected"
       /\ externalFetches[x].value.name = "TransportError"
       /\ Cardinality(Returned("fetchExternalData", x)) >= 2


\* The frames of fetchExternalData that _refreshExternalData task r called.
CalledBy(r) == {c \in DOMAIN calls : calls[c].by = r}

\* C11 as stated: a refresh that has read a cached document with
\* discoveryApi.externalUri = U has started a transport GET of its own,
\* addressed to U.
C11_RefreshIssuesOneGet ==
    \A r \in DOMAIN refreshTasks :
       refreshTasks[r].call # 0 =>
          LET c == refreshTasks[r].call
          IN  /\ calls[c].on = c
              /\ externalFetches[c].endpoint = calls[c].arg

\* C11 amended: a refresh calls fetchExternalData once, after its delay and
\* its cache read, with the discoveryApi.externalUri U of the document it
\* read; when the external in-flight cell is empty at that moment the call
\* issues one transport GET, addressed to U, and when the cell holds a fetch
\* the call joins it and issues none; when the refresh succeeds the cache
\* slot holds the document of the fetch it awaited with every field of that
\* document and the expireTime computed for it.
C11_RefreshChainsFromCache ==
    /\ [](\A r \in DOMAIN refreshTasks :
             /\ refreshTasks[r].pc \in {"delay", "externalData"} =>
                   (refreshTasks[r].call = 0 /\ CalledBy(r) = {})
             /\ Cardinality(CalledBy(r)) <= 1
             /\ refreshTasks[r].call # 0 =>
                   CalledBy(r) = {refreshTasks[r].call})
    /\ [][\A r \in DOMAIN refreshTasks :
             ( /\ refreshTasks[r].pc = "externalData"
               /\ refreshTasks'[r].pc = "fetchExternalData" )
             => LET k == Len(calls) + 1
                IN  /\ _cache.external # Null
                    /\ refreshTasks'[r].call = k
                    /\ calls'[k].op = "fetchExternalData"
                    /\ calls'[k].by = r
                    /\ calls'[k].arg = _cache.external.externalUri
                    /\ IF _externalFetchPromise = 0
                       THEN /\ calls'[k].on = k
                            /\ DOMAIN externalFetches' =
                                  DOMAIN externalFetches \cup {k}
                            /\ externalFetches'[k].pc = "fetchGet"
                            /\ externalFetches'[k].endpoint =
                                  _cache.external.externalUri
                       ELSE /\ calls'[k].on = _externalFetchPromise
                            /\ externalFetches' = externalFetches]_vars
    /\ [][\A r \in DOMAIN refreshTasks :
             ( /\ refreshTasks[r].pc = "fetchExternalData"
               /\ refreshTasks'[r].pc = "fulfilled" )
             => LET doc ==
                       externalFetches[calls[refreshTasks[r].call].on].value
                IN  /\ _cache'.external # Null
                    /\ _cache'.external =
                          [doc EXCEPT !.expireTime =
                                         _cache'.external.expireTime]
                    /\ (_cache'.external.expireTime = Undefined)
                          <=> (doc.expiresIn = 0)]_vars

\* A refresh that issued a transport request of its own and succeeded; the
\* cache slot holds the document of that request.
C11_Witness ==
    \E r \in DOMAIN refreshTasks :
       /\ refreshTasks[r].pc = "fulfilled"
       /\ calls[refreshTasks[r].call].on = refreshTasks[r].call
       /\ _cache.external # Null
       /\ _cache.external.body = refreshTasks[r].call


\* C12: a refresh whose cache read finds the external slot empty is rejected
\* in a step that issues no transport request, calls nothing and leaves the
\* cache alone; every caller awaiting it gets that failure; once they have
\* returned the refresh cell does not hold it, so the next call starts a new
\* attempt.
C12_RefreshWithoutDocument ==
    /\ [](\A r \in DOMAIN refreshTasks :
             ( /\ refreshTasks[r].pc = "rejected"
               /\ refreshTasks[r].value.name = "TypeError" )
             => /\ refreshTasks[r].call = 0
                /\ CalledBy(r) = {}
                /\ HostTurn => _externalRefreshPromise # r
                /\ \A c \in Returned("refreshExternalData", r) :
                      calls[c].res = refreshTasks[r].value)
    /\ [][\A r \in DOMAIN refreshTasks :
             ( /\ refreshTasks[r].pc = "externalData"
               /\ refreshTasks'[r].pc # "externalData"
               /\ _cache.external = Null )
             => /\ refreshTasks'[r].pc = "rejected"
                /\ externalFetches' = externalFetches
                /\ calls' = calls
                /\ _cache' = _cache]_vars
    /\ [][\A r \in DOMAIN refreshTasks :
             ( /\ refreshTasks[r].pc = "rejected"
               /\ _externalRefreshPromise = 0
               /\ Len(calls') > Len(calls)
               /\ calls'[Len(calls')].op = "refreshExternalData" )
             => /\ calls'[Len(calls')].on = Len(calls')
                /\ refreshTasks'[Len(calls')].pc = "delay"]_vars

\* A refresh that failed on the empty slot with two callers, and a later
\* call that started a refresh of its own.
C12_Witness ==
    \E r, q \in DOMAIN refreshTasks :
       /\ r < q
       /\ refreshTasks[r].pc = "rejected"
       /\ refreshTasks[r].value.name = "TypeError"
       /\ Cardinality(Returned("refreshExternalData", r)) >= 2


C14_ExpiredWhenDue ==
    [][\A c \in Frames("externalDataExpired") :
          ( /\ calls[c].pc = "externalData"
            /\ calls'[c].pc = "done"
            /\ ~IsError(calls'[c].res) )
          => /\ externalFetches' = externalFetches
             /\ initialFetches' = initialFetches
             /\ _cache.external = Null => calls'[c].res.value
             /\ ( /\ _cache.external # Null
                  /\ _cache.external.expireTime # Undefined )
                => calls'[c].res.value =
                      (now' >= _cache.external.expireTime[1]
                                  - _refreshHandicapMs)]_vars


\* C15: the value fetchExternalData hands to the cache is the fetched
\* document with expireTime = (the time read at the write) + expiresIn * 1000
\* when expiresIn is non-zero and with no expireTime otherwise; every
\* document written to the external slot is such a value; the stored
\* expireTime is never the one the payload carried.
C15_ExpireTimeRecomputed ==
    /\ [][\A c \in Frames("fetchExternalData") :
             (calls[c].pc = "await" /\ calls'[c].pc = "setExternalData")
             => LET doc == externalFetches[calls[c].on].value
                IN  calls'[c].data =
                       [doc EXCEPT !.expireTime =
                           IF doc.expiresIn # 0
                           THEN <<now' + doc.expiresIn * 1000>>
                           ELSE Undefined]]_vars
    /\ [][(_cache'.external # _cache.external /\ _cache'.external # Null)
             => \E c \in Frames("fetchExternalData") :
                   /\ calls[c].pc = "setExternalData"
                   /\ _cache'.external = calls[c].data]_vars
    /\ []((_cache.external # Null /\ _cache.external.body # 0)
             => LET payload == externalFetches[_cache.external.body].value
                IN  /\ (_cache.external.expireTime = Undefined)
                          <=> (payload.expiresIn = 0)
                    /\ payload.expireTime # Undefined =>
                          _cache.external.expireTime # payload.expireTime)

\* The slot holds a document whose payload had no expiresIn and carried an
\* expireTime, stored without one, while a document with expiresIn = 1 is
\* being written with the expireTime computed from the clock at 1000.
C15_Witness ==
    /\ _cache.external # Null
    /\ _cache.external.body # 0
    /\ _cache.external.expiresIn = 0
    /\ _cache.external.expireTime = Undefined
    /\ externalFetches[_cache.external.body].value.expireTime # Undefined
    /\ \E c \in Frames("fetchExternalData") :
          /\ calls[c].pc = "setExternalData"
          /\ now = 1000
          /\ calls[c].data.expireTime = <<2000>>


C17_RefreshFetchesIndependently ==
    [][\A r \in DOMAIN refreshTasks :
          ( /\ refreshTasks[r].pc = "externalData"
            /\ refreshTasks'[r].pc = "fetchExternalData"
            /\ _externalFetchPromise # 0
            /\ calls[_externalFetchPromise].by = 0
            /\ _externalFetchPromise \in ExternalGets )
          => /\ calls'[Len(calls')].on = Len(calls')
             /\ Cardinality({x \in DOMAIN externalFetches' :
                                externalFetches'[x].pc = "fetchGet"}) = 2]_vars

\* C17 amended: fetchExternalData and refreshExternalData share the external
\* in-flight cell.  A refresh that reaches its fetch step while the cell
\* holds a fetch joins it: it issues no transport request and awaits the
\* held fetch.  Every caller of a fetch writes its document to the slot
\* without looking at what the slot holds, so the last write wins.
C17_RefreshJoinsHeldFetch ==
    /\ [][\A r \in DOMAIN refreshTasks :
             ( /\ refreshTasks[r].pc = "externalData"
               /\ refreshTasks'[r].pc = "fetchExternalData"
               /\ _externalFetchPromise # 0 )
             => /\ calls'[Len(calls')].by = r
                /\ calls'[Len(calls')].on = _externalFetchPromise
                /\ externalFetches' = externalFetches
                /\ _externalFetchPromise' = _externalFetchPromise]_vars
    /\ [][\A c \in Frames("fetchExternalData") :
             ( /\ calls[c].pc = "setExternalData"
               /\ calls'[c].pc = "done"
               /\ ~IsError(calls'[c].res) )
             => _cache'.external = calls[c].data]_vars

\* A refresh joined a fetch that a call from outside had started, both
\* callers wrote its document and the refresh succeeded.
C17_Witness ==
    \E r \in DOMAIN refreshTasks :
       /\ refreshTasks[r].pc = "fulfilled"
       /\ calls[refreshTasks[r].call].on # refreshTasks[r].call
       /\ calls[calls[refreshTasks[r].call].on].by = 0
       /\ Cardinality({c \in Returned("fetchExternalData",
                                       calls[refreshTasks[r].call].on) :
                          ~IsError(calls[c].res)}) = 2


\* The external-data-updated events that frame c emitted.
EmittedBy(c) ==
    {i \in Events("external-data-updated") : emitted[i].by = c}

\* C18: a fetchExternalData call emits nothing before it returns; the step
\* that emits its event is the one in which its cache write completes, the
\* slot then holding the value it wrote, and in which it returns the
\* document emitted; a call whose cache write fails returns the failure in a
\* step that emits nothing and leaves the cache alone, and a call that
\* failed has emitted no event.
C18_PersistThenEmit ==
    /\ [](\A c \in Frames("fetchExternalData") :
             IF calls[c].pc = "done" /\ ~IsError(calls[c].res)
             THEN /\ Cardinality(EmittedBy(c)) = 1
                  /\ \A i \in EmittedBy(c) : emitted[i].data = calls[c].res
             ELSE EmittedBy(c) = {})
    /\ [][( /\ Len(emitted') > Len(emitted)
            /\ emitted'[Len(emitted')].event = "external-data-updated" )
          => LET e == emitted'[Len(emitted')]
                 c == e.by
             IN  /\ calls[c].op = "fetchExternalData"
                 /\ calls[c].pc = "setExternalData"
                 /\ _cache'.external = calls[c].data
                 /\ _cache'.external.body = e.data.body
                 /\ calls'[c].pc = "done"
                 /\ calls'[c].res = e.data]_vars
    /\ [][\A c \in Frames("fetchExternalData") :
             ( /\ calls[c].pc = "setExternalData"
               /\ calls'[c].pc = "done"
               /\ IsError(calls'[c].res) )
             => /\ calls'[c].res.name = "CacheError"
                /\ emitted' = emitted
                /\ _cache' = _cache]_vars

\* A call whose cache write failed and that emitted nothing, and a call for
\* the same fetch whose write succeeded and that emitted its document.
C18_Witness ==
    \E c, d \in Frames("fetchExternalData") :
       /\ calls[c].on = calls[d].on
       /\ calls[c].pc = "done" /\ calls[d].pc = "done"
       /\ IsError(calls[c].res) /\ calls[c].res.name = "CacheError"
       /\ EmittedBy(c) = {}
       /\ ~IsError(calls[d].res)
       /\ EmittedBy(d) # {}
       /\ _cache.external # Null
       /\ _cache.external.body = calls[d].on


\* C19: a fetchExternalData call made while the external in-flight cell
\* holds a fetch starts no transport request, whatever its endpoint, and
\* awaits the held fetch; every transport request is addressed to the
\* endpoint of the call that started it; a call writes, returns and emits
\* the document of the fetch it awaited.
C19_EndpointIgnoredWhileHeld ==
    /\ [][( /\ Len(calls') > Len(calls)
            /\ calls'[Len(calls')].op = "fetchExternalData"
            /\ _externalFetchPromise # 0 )
          => /\ calls'[Len(calls')].on = _externalFetchPromise
             /\ externalFetches' = externalFetches
             /\ _externalFetchPromise' = _externalFetchPromise]_vars
    /\ [](\A x \in DOMAIN externalFetches :
             externalFetches[x].endpoint = calls[x].arg)
    /\ [](\A c \in Frames("fetchExternalData") :
             LET x == calls[c].on
             IN  /\ calls[c].pc = "setExternalData" =>
                       calls[c].data.body = x
                 /\ (calls[c].pc = "done" /\ ~IsError(calls[c].res)) =>
                       /\ calls[c].res = externalFetches[x].value
                       /\ \A i \in EmittedBy(c) :
                             emitted[i].data = externalFetches[x].value)

\* A call from outside for e2 joined a fetch from e1, wrote, emitted and
\* returned its document, and no transport request was addressed to e2.
C19_Witness ==
    /\ \A x \in DOMAIN externalFetches : externalFetches[x].endpoint = "e1"
    /\ \E c \in Frames("fetchExternalData") :
          /\ calls[c].by = 0
          /\ calls[c].arg = "e2"
          /\ calls[c].on # c
          /\ calls[c].pc = "done"
          /\ calls[c].res = externalFetches[calls[c].on].value
          /\ EmittedBy(c) # {}
          /\ _cache.external # Null
          /\ _cache.external.body = calls[c].on


\* C20: while removeInitialData has not been called, initialized implies
\* that the initial slot holds a document; and the step that emits
\* initialized finds the document it carries in the initial slot.
C20_ReadyImpliesPersisted ==
    /\ [](Frames("removeInitialData") = {} =>
             (_initialized => _cache.initial # Null))
    /\ [][( /\ Len(emitted') > Len(emitted)
            /\ emitted'[Len(emitted')].event = "initialized" )
          => /\ _cache.initial = emitted'[Len(emitted')].data
             /\ _cache'.initial = _cache.initial
             /\ _initialized']_vars

\* Ready after a bootstrap that fetched the document: the slot holds the
\* document that the initialized event carried.
C20_Witness ==
    /\ _initialized
    /\ Frames("removeInitialData") = {}
    /\ \E a \in DOMAIN initTasks :
          /\ initTasks[a].pc = "fulfilled"
          /\ initTasks[a].call # 0
    /\ \E i \in Events("initialized") :
          /\ emitted[i].data.body # 0
          /\ _cache.initial = emitted[i].data

====
